---- MODULE Spec2Model ----
(***************************************************************************)
(* Mc2PCA (src/Mc2PCA_class.py): multivariate time series clustering by    *)
(* common principal component analysis.  The model follows one Mc2PCA      *)
(* object from its construction through fit() (one action per phase of the *)
(* fit loop) to calls of inference().                                      *)
(*                                                                         *)
(* Numbers.  A float that may be +infinity or NaN is a pair <<num, den>>:  *)
(* den > 0 is the rational num/den, <<1, 0>> is +infinity (np.inf) and     *)
(* <<0, 0>> is NaN.                                                        *)
(*                                                                         *)
(* Data.  The datasets are drawn from a catalogue of samples whose         *)
(* centered variable series are pairwise uncorrelated, so that every       *)
(* covariance matrix is diagonal and its singular value decomposition is   *)
(* exact in integers: the singular values are the diagonal entries and the *)
(* right singular vectors are unit vectors.                                *)
(***************************************************************************)
EXTENDS Integers, Sequences, FiniteSets, TLC

\* ------------------------------------------------------------------ bounds
\* Largest number of samples of a training dataset.
MaxN == 3
\* Largest number of clusters K given to the constructor.
MaxK == 2
\* Largest max_iter given to the constructor.
MaxIter == 2

\* ------------------------------------------------------------ small helpers
None == <<>>
Some(x) == <<x>>

RECURSIVE SeqSum(_)
SeqSum(s) == IF s = <<>> THEN 0 ELSE Head(s) + SeqSum(Tail(s))

\* [F(1), ..., F(n)] as a list, every element computed once (a Python list
\* or comprehension; a NumPy array indexed from 1).
RECURSIVE ListOf(_, _)
ListOf(F(_), n) == IF n = 0 THEN <<>> ELSE Append(ListOf(F, n - 1), F(n))

Abs(x) == IF x < 0 THEN -x ELSE x

Min(a, b) == IF a < b THEN a ELSE b

\* The exact square root of a perfect square (the catalogue keeps every
\* residual norm a perfect square).
ISqrt(x) == CHOOSE r \in 0..x : r * r = x

Range(s) == {s[i] : i \in 1..Len(s)}

\* ------------------------------------------------- floats with inf and NaN
Inf == <<1, 0>>
NaN == <<0, 0>>
Fin(x) == <<x, 1>>
IsNaN(x) == x[2] = 0 /\ x[1] = 0
IsInf(x) == x[2] = 0 /\ x[1] # 0

\* x < y on floats: every comparison with NaN is False, inf < inf is False.
FloatLessEq(x, y) ==
    IF IsNaN(x) \/ IsNaN(y) THEN FALSE
    ELSE IF IsInf(y) THEN TRUE
    ELSE IF IsInf(x) THEN FALSE
    ELSE x[1] * y[2] <= y[1] * x[2]

FloatLess(x, y) ==
    IF IsNaN(x) \/ IsNaN(y) THEN FALSE
    ELSE IF IsInf(x) THEN FALSE
    ELSE IF IsInf(y) THEN TRUE
    ELSE x[1] * y[2] < y[1] * x[2]

\* np.abs(x - y): inf - inf is NaN, inf - finite is inf.
FloatAbsDiff(x, y) ==
    IF IsNaN(x) \/ IsNaN(y) THEN NaN
    ELSE IF IsInf(x) /\ IsInf(y) THEN NaN
    ELSE IF IsInf(x) \/ IsInf(y) THEN Inf
    ELSE <<Abs(x[1] * y[2] - y[1] * x[2]), x[2] * y[2]>>

\* np.sum(v) / len(v) of a vector of floats none of which is NaN.
FloatMean(v) ==
    IF Len(v) = 0 THEN NaN
    ELSE IF \E i \in 1..Len(v) : IsInf(v[i]) THEN Inf
    ELSE <<SeqSum(ListOf(LAMBDA i : v[i][1], Len(v))), Len(v)>>

\* --------------------------------------------------------------- the data
\* Three zero-sum, pairwise orthogonal sign patterns: a sample whose j-th
\* variable series is offset + amplitude * Patterns[j] has, once centered,
\* a diagonal covariance matrix.
Patterns == << <<1, -1, 1, -1>>, <<1, 1, -1, -1>>, <<1, -1, -1, 1>> >>

\* Number of variables m and series length L of every sample.
NumVars == Len(Patterns)
SeriesLen == Len(Patterns[1])

MkSample(off, amp) ==
    ListOf(LAMBDA j : ListOf(LAMBDA s : off + amp[j] * Patterns[j][s], SeriesLen), NumVars)

\* The amplitudes keep every residual norm an integer (3-4-5, 5-12-13 and
\* 8-15-17).
SampleA == MkSample(1, <<0, 5, 12>>)
SampleB == MkSample(0, <<15, 8, 0>>)
SampleC == MkSample(2, <<3, 4, 0>>)
Catalogue == {SampleA, SampleB, SampleC}

SeqsOfLen(S, n) == [1..n -> S]

\* Training datasets: 1..MaxN samples of the catalogue.
Datasets == UNION { SeqsOfLen(Catalogue, n) : n \in 1..MaxN }

\* Test datasets given to inference.
TestSets == { <<SampleC>>, <<SampleA, SampleB, SampleC>> }

\* Constructor arguments.  K = 0, p = 0, p = NumVars + 1, max_iter = 0 and the
\* metric "chebyshev" are the invalid ones.
KVals == 0..MaxK
PVals == {0, 1, 2, NumVars + 1}
MaxIterVals == {0, 1, MaxIter}
EpsVals == {Inf, <<1, 10000000>>}
SupportedMetrics == {"euclidean", "l1"}
MetricVals == SupportedMetrics \cup {"chebyshev"}

\* ------------------------------------------------------------ center_data
center_series(time_series) ==
    LET mean == SeqSum(time_series) \div Len(time_series)
    IN  ListOf(LAMBDA s : time_series[s] - mean, Len(time_series))

center_data(X_in) ==
    ListOf(LAMBDA i : ListOf(LAMBDA j : center_series(X_in[i][j]), Len(X_in[i])),
           Len(X_in))

\* --------------------------------------------- compute_covariance_matrices
\* np.cov(row_data.T, bias=True): population covariance, divide by L.
Cov(x, y) ==
    LET L == Len(x)
        mx == SeqSum(x) \div L
        my == SeqSum(y) \div L
    IN  SeqSum(ListOf(LAMBDA s : (x[s] - mx) * (y[s] - my), L)) \div L

cov_matrix(row) ==
    ListOf(LAMBDA a : ListOf(LAMBDA b : Cov(row[a], row[b]), Len(row)), Len(row))

compute_covariance_matrices(centered_X) ==
    ListOf(LAMBDA i : cov_matrix(centered_X[i]), Len(centered_X))

\* ------------------------------------------------------------------- CPCA
\* The cols x rows transpose of a rows x cols matrix.
Transpose(M, rows, cols) ==
    ListOf(LAMBDA c : ListOf(LAMBDA r : M[r][c], rows), cols)

\* A (rows x inner) times B (inner x cols).
MatMul(A, B, inner, cols) ==
    ListOf(LAMBDA r :
               ListOf(LAMBDA c : SeqSum(ListOf(LAMBDA q : A[r][q] * B[q][c], inner)),
                      cols),
           Len(A))

\* np.mean(Sigma, axis=0), kept as the element-wise sum: the mean is this
\* matrix divided by Len(Sigma), and neither the order of the singular values
\* nor the retained-information ratio depends on that positive factor.
MeanCovNumerator(Sigma) ==
    LET m == Len(Sigma[1])
    IN  ListOf(LAMBDA a :
                   ListOf(LAMBDA b : SeqSum(ListOf(LAMBDA q : Sigma[q][a][b], Len(Sigma))),
                          m),
               m)

\* np.linalg.svd of a diagonal positive-semidefinite matrix: the axes in
\* descending order of their diagonal entry.  The order of equal singular
\* values is the library's choice (tie: "asc" or "desc" by axis number).
SvdOrder(M, tie) ==
    LET m == Len(M)
        Before(a, b) ==
            \/ M[a][a] > M[b][b]
            \/ /\ M[a][a] = M[b][b]
               /\ IF tie = "asc" THEN a < b ELSE a > b
    IN  ListOf(LAMBDA r :
                   CHOOSE a \in 1..m : Cardinality({b \in 1..m : Before(b, a)}) = r - 1,
               m)

\* Python's x[:p] keeps the first min(p, len) entries for p >= 0.
SliceLen(p, len) == IF p < 0 THEN (IF len + p < 0 THEN 0 ELSE len + p) ELSE Min(p, len)

\* Returns <<vt[:p, :].T, prct_info>>: the common space as an m x p' matrix
\* of unit columns, and the retained information as a fraction.
CPCA(Sigma, p, tie) ==
    LET mean_cov == MeanCovNumerator(Sigma)
        m == Len(mean_cov)
        order == SvdOrder(mean_cov, tie)
        vt == ListOf(LAMBDA r : ListOf(LAMBDA j : IF j = order[r] THEN 1 ELSE 0, m), m)
        val_propre ==
            ListOf(LAMBDA r : mean_cov[order[r]][order[r]] * mean_cov[order[r]][order[r]], m)
        kept == SliceLen(p, m)
        prct_info ==
            IF kept = 0 THEN Fin(0)
            ELSE <<SeqSum(SubSeq(val_propre, 1, kept)), SeqSum(val_propre)>>
    IN  <<Transpose(SubSeq(vt, 1, kept), kept, m), prct_info>>

\* -------------------------------------------------- compute_common_spaces
\* cluster_indices: a list of lists of 0-based sample indices.  An empty
\* cluster gets None in S and NO entry in info_by_cluster.
cluster_cpca(cov_matrices, indices, p, tie) ==
    IF Len(indices) > 0
    THEN Some(CPCA(ListOf(LAMBDA q : cov_matrices[indices[q] + 1], Len(indices)), p, tie))
    ELSE None

\* Variant of compute_common_spaces: an empty cluster is given the common
\* space of the whole dataset in the place of None.
compute_common_spaces_reseed(cov_matrices, cluster_indices, p, tie) ==
    LET K == Len(cluster_indices)
        all == ListOf(LAMBDA q : q - 1, Len(cov_matrices))
        res == ListOf(LAMBDA k : cluster_cpca(cov_matrices,
                                              IF Len(cluster_indices[k]) > 0
                                              THEN cluster_indices[k] ELSE all, p, tie), K)
    IN  <<ListOf(LAMBDA k : Some(res[k][1][1]), K), ListOf(LAMBDA k : res[k][1][2], K)>>

compute_common_spaces(cov_matrices, cluster_indices, p, tie) ==
    LET K == Len(cluster_indices)
        res == ListOf(LAMBDA k : cluster_cpca(cov_matrices, cluster_indices[k], p, tie), K)
        nonempty == SelectSeq(ListOf(LAMBDA k : k, K), LAMBDA k : res[k] # None)
        S == ListOf(LAMBDA k : IF res[k] # None THEN Some(res[k][1][1]) ELSE None, K)
        info_by_cluster == ListOf(LAMBDA r : res[nonempty[r]][1][2], Len(nonempty))
    IN  <<S, info_by_cluster>>

\* --------------------------------------------------------- np.array_split
\* np.array_split(np.arange(n), K) for K >= 1: the first n % K sections hold
\* n // K + 1 indices, the others n // K.
section(n, K, k) ==
    LET size == (n \div K) + (IF k - 1 < n % K THEN 1 ELSE 0)
        start == (k - 1) * (n \div K) + Min(k - 1, n % K)
    IN  ListOf(LAMBDA q : start + q - 1, size)

array_split(n, K) == ListOf(LAMBDA k : section(n, K, k), K)

\* Variant of where_eq: the comparison I <= k in the place of I == k.
where_le(I, k) ==
    SelectSeq(ListOf(LAMBDA i : i - 1, Len(I)), LAMBDA i : I[i + 1] <= k)

\* np.where(I == k)[0]: the 0-based positions of I that hold k, ascending.
where_eq(I, k) ==
    SelectSeq(ListOf(LAMBDA i : i - 1, Len(I)), LAMBDA i : I[i + 1] = k)

\* idx = [np.where(I == k)[0] for k in range(K)]
clusters_of(I, K) == ListOf(LAMBDA k : where_eq(I, k - 1), K)

\* --------------------------------------------------------- assign_clusters
\* One entry of err: the distance between row s of time_series and of Y.
step_error(row, yrow, distance_metric) ==
    IF distance_metric = "euclidean"
    THEN ISqrt(SeqSum(ListOf(LAMBDA j : (row[j] - yrow[j]) * (row[j] - yrow[j]), Len(row))))
    ELSE SeqSum(ListOf(LAMBDA j : Abs(row[j] - yrow[j]), Len(row)))

\* Error[i, k] for one sample and the projector sst = S[k] S[k]^T.
sample_error(sample, sst, distance_metric) ==
    LET m == Len(sample)
        L == Len(sample[1])
        time_series == Transpose(sample, m, L)
        Y == MatMul(time_series, sst, m, m)
        err == ListOf(LAMBDA s : step_error(time_series[s], Y[s], distance_metric), L)
    IN  Fin(SeqSum(err) \div L)

\* Variant of null_column: the column keeps the zeros Error was created with
\* (the else branch of line 304 missing).
zero_column(n) == ListOf(LAMBDA i : Fin(0), n)

\* Column k of Error for a cluster whose common space is None.
null_column(n) == ListOf(LAMBDA i : Inf, n)

\* Error[:, k] as a vector over the samples.
error_column(X_c, Sk, distance_metric) ==
    IF Sk # None
    THEN LET m == Len(Sk[1])
             sst == MatMul(Sk[1], Transpose(Sk[1], m, Len(Sk[1][1])), Len(Sk[1][1]), m)
         IN  ListOf(LAMBDA i : sample_error(X_c[i], sst, distance_metric), Len(X_c))
    ELSE null_column(Len(X_c))

\* np.argmin of one row: the first position (0-based) of the minimum.
argmin(row) ==
    (CHOOSE k \in 1..Len(row) :
        /\ \A j \in 1..Len(row) : ~FloatLess(row[j], row[k])
        /\ \A j \in 1..(k - 1) : FloatLess(row[k], row[j])) - 1

\* The err variable is bound only under one of the four metric branches:
\* with another metric, line 303 raises UnboundLocalError for the first
\* sample of the first cluster with a common space.
assign_raises(X_c, S_list, K, distance_metric) ==
    /\ distance_metric \notin {"euclidean", "cosine", "dtw", "l1"}
    /\ Len(X_c) > 0
    /\ \E k \in 1..K : S_list[k] # None

\* Returns [Error, I, v]; Error[i][k] with i, k 1-based, I holds 0-based
\* cluster numbers.
assign_clusters(X_c, S_list, K, distance_metric) ==
    LET n == Len(X_c)
        cols == ListOf(LAMBDA k : error_column(X_c, S_list[k], distance_metric), K)
        Err == Transpose(cols, K, n)
        I_new == ListOf(LAMBDA i : argmin(Err[i]), n)
        v_new == ListOf(LAMBDA i : Err[i][I_new[i] + 1], n)
    IN  [Error |-> Err, I |-> I_new, v |-> v_new]

\* ------------------------------------------------------------- the state
VARIABLES
    \* Mc2PCA.__init__: the fields of the object (None until fit stores them)
    self_K, self_p, self_epsilon, self_max_iter, self_distance_metric,
    self_S, self_idx, self_E, self_info_by_cluster,
    \* the tie order of the SVD of this build
    svd_tie,
    \* Mc2PCA.fit: position, exception raised, and the local variables
    pc, exc, X, cov_matrices, idx, S, E, I, v, Error, t, info_by_cluster,
    fit_ret,
    \* Mc2PCA.inference: the last argument and the last return value
    X_test, infer_ret,
    \* history of fit: idx and S at the start of the current iteration, the
    \* assignment vector of the previous iteration, how the loop ended, and
    \* the computations performed so far
    idx_start, S_start, I_prev, outcome, stages,
    \* the rank (below) of the position the last step was taken from
    rank_before

fields == <<self_K, self_p, self_epsilon, self_max_iter, self_distance_metric,
            self_S, self_idx, self_E, self_info_by_cluster>>
locals == <<X, cov_matrices, idx, S, E, I, v, Error, t, info_by_cluster>>
history == <<idx_start, S_start, I_prev, outcome, stages>>
vars == <<fields, svd_tie, pc, exc, locals, fit_ret, X_test, infer_ret, history,
          rank_before>>

\* A ranking of the positions of fit: the steps left in the worst case.
FitRank ==
    IF pc = "new" THEN 3 * self_max_iter + 5
    ELSE IF pc = "loop" THEN 3 * (self_max_iter - t) + 3
    ELSE IF pc = "check" THEN 3 * (self_max_iter - t) + 5
    ELSE IF pc = "store" THEN 1
    ELSE 0

\* Mc2PCA(K, p, epsilon, max_iter, distance_metric): no argument is checked.
Init ==
    /\ self_K \in KVals
    /\ self_p \in PVals
    /\ self_epsilon \in EpsVals
    /\ self_max_iter \in MaxIterVals
    /\ self_distance_metric \in MetricVals
    /\ self_S = None /\ self_idx = None /\ self_E = None
    /\ self_info_by_cluster = None
    /\ svd_tie \in {"asc", "desc"}
    /\ pc = "new" /\ exc = "none"
    /\ X = <<>> /\ cov_matrices = <<>> /\ idx = <<>> /\ S = <<>> /\ E = <<>>
    /\ I = <<>> /\ v = <<>> /\ Error = <<>> /\ t = 0 /\ info_by_cluster = None
    /\ fit_ret = None /\ X_test = None /\ infer_ret = None
    /\ idx_start = <<>> /\ S_start = <<>> /\ I_prev = None
    /\ outcome = "none" /\ stages = {}
    /\ rank_before = FitRank + 1

\* fit, lines 53-68: center, covariance matrices, initial split (which
\* raises ValueError for K <= 0), initial common spaces, E = [inf].
FitStart(X_raw) ==
    /\ pc = "new"
    /\ rank_before' = FitRank
    /\ X' = center_data(X_raw)
    /\ cov_matrices' = compute_covariance_matrices(X')
    /\ IF self_K <= 0
       THEN /\ pc' = "raised" /\ exc' = "ValueError"
            /\ stages' = {"center", "covariance"}
            /\ UNCHANGED <<idx, S, E>>
       ELSE /\ idx' = array_split(Len(X'), self_K)
            /\ S' = compute_common_spaces(cov_matrices', idx', self_p, svd_tie)[1]
            /\ E' = <<Inf>>
            /\ pc' = "loop" /\ exc' = exc
            /\ stages' = {"center", "covariance", "extraction"}
    /\ UNCHANGED <<fields, svd_tie, I, v, Error, t, info_by_cluster, fit_ret,
                   X_test, infer_ret, idx_start, S_start, I_prev, outcome>>

\* Variant of loop_continues: range(1, max_iter + 2), one iteration too many.
loop_continues_one_more(done, max_iter) == done < max_iter + 1

\* for t in range(1, max_iter + 1): another iteration after t iterations?
loop_continues(done, max_iter) == done < max_iter

\* lines 73-74: I, v = assign_clusters(...); E.append(np.sum(v) / len(v)).
AssignResult(r) ==
    /\ I' = r.I /\ v' = r.v /\ Error' = r.Error
    /\ E' = Append(E, FloatMean(r.v))

\* fit, lines 70-74: the next iteration starts, assign_clusters, E.append.
AssignStep ==
    /\ pc = "loop"
    /\ rank_before' = FitRank
    /\ loop_continues(t, self_max_iter)
    /\ t' = t + 1
    /\ idx_start' = idx /\ S_start' = S
    /\ I_prev' = IF t = 0 THEN None ELSE Some(I)
    /\ stages' = stages \cup {"assignment"}
    /\ IF assign_raises(X, S, self_K, self_distance_metric)
       THEN /\ pc' = "raised" /\ exc' = "UnboundLocalError"
            /\ UNCHANGED <<I, v, Error, E>>
       ELSE /\ AssignResult(assign_clusters(X, S, self_K, self_distance_metric))
            /\ pc' = "check" /\ exc' = exc
    /\ UNCHANGED <<fields, svd_tie, X, cov_matrices, idx, S, info_by_cluster,
                   fit_ret, X_test, infer_ret, outcome>>

\* Variant of converged: <= in the place of <.
converged_le(trace, iter, epsilon) ==
    FloatLessEq(FloatAbsDiff(trace[iter], trace[iter + 1]), epsilon)

\* line 77: np.abs(E[t-1] - E[t]) < self.epsilon (E is 1-based here).
converged(trace, iter, epsilon) ==
    FloatLess(FloatAbsDiff(trace[iter], trace[iter + 1]), epsilon)

\* Variant of ConvergedBreak: the convergence test placed after lines 81-84,
\* so that the converging iteration's assignment is committed.
ConvergedBreakCommitted ==
    /\ pc = "check"
    /\ rank_before' = FitRank
    /\ converged(E, t, self_epsilon)
    /\ idx' = clusters_of(I, self_K)
    /\ S' = compute_common_spaces(cov_matrices, idx', self_p, svd_tie)[1]
    /\ info_by_cluster' = Some(compute_common_spaces(cov_matrices, idx', self_p, svd_tie)[2])
    /\ pc' = "store"
    /\ outcome' = "CONVERGED"
    /\ UNCHANGED <<fields, svd_tie, exc, X, cov_matrices, E, I, v, Error, t,
                   fit_ret, X_test, infer_ret, idx_start, S_start, I_prev, stages>>

\* lines 77-78: the test succeeds, break.
ConvergedBreak ==
    /\ pc = "check"
    /\ rank_before' = FitRank
    /\ converged(E, t, self_epsilon)
    /\ pc' = "store"
    /\ outcome' = "CONVERGED"
    /\ UNCHANGED <<fields, svd_tie, exc, locals, fit_ret, X_test, infer_ret,
                   idx_start, S_start, I_prev, stages>>

\* Variant of RecomputeStep: line 81 missing, the common spaces are
\* recomputed from the index sets of the previous iteration.
RecomputeStepStaleIdx ==
    /\ pc = "check"
    /\ rank_before' = FitRank
    /\ ~converged(E, t, self_epsilon)
    /\ idx' = idx
    /\ S' = compute_common_spaces(cov_matrices, idx, self_p, svd_tie)[1]
    /\ info_by_cluster' = Some(compute_common_spaces(cov_matrices, idx, self_p, svd_tie)[2])
    /\ stages' = stages \cup {"extraction"}
    /\ pc' = "loop"
    /\ UNCHANGED <<fields, svd_tie, exc, X, cov_matrices, E, I, v, Error, t,
                   fit_ret, X_test, infer_ret, idx_start, S_start, I_prev, outcome>>

\* line 84: S, info_by_cluster = compute_common_spaces(...).
RecomputeResult(r) == S' = r[1] /\ info_by_cluster' = Some(r[2])

\* lines 80-84: the test fails; new index sets and new common spaces.
RecomputeStep ==
    /\ pc = "check"
    /\ rank_before' = FitRank
    /\ ~converged(E, t, self_epsilon)
    /\ idx' = clusters_of(I, self_K)
    /\ RecomputeResult(compute_common_spaces(cov_matrices, idx', self_p, svd_tie))
    /\ stages' = stages \cup {"extraction"}
    /\ pc' = "loop"
    /\ UNCHANGED <<fields, svd_tie, exc, X, cov_matrices, E, I, v, Error, t,
                   fit_ret, X_test, infer_ret, idx_start, S_start, I_prev, outcome>>

\* line 70: range(1, max_iter + 1) is exhausted.
LoopExit ==
    /\ pc = "loop"
    /\ rank_before' = FitRank
    /\ ~loop_continues(t, self_max_iter)
    /\ pc' = "store"
    /\ outcome' = "MAX_ITER_REACHED"
    /\ UNCHANGED <<fields, svd_tie, exc, locals, fit_ret, X_test, infer_ret,
                   idx_start, S_start, I_prev, stages>>

\* lines 86-91: info_by_cluster is bound only by line 84, so line 87 raises
\* UnboundLocalError when no iteration reached it; else the results are
\* stored in the object and returned.
FitReturn ==
    /\ pc = "store"
    /\ rank_before' = FitRank
    /\ IF info_by_cluster = None
       THEN /\ pc' = "raised" /\ exc' = "UnboundLocalError"
            /\ UNCHANGED <<fields, fit_ret>>
       ELSE /\ self_info_by_cluster' = info_by_cluster
            /\ self_idx' = Some(idx)
            /\ self_E' = Some(E)
            /\ self_S' = Some(S)
            /\ fit_ret' = Some(<<idx, E, info_by_cluster[1]>>)
            /\ pc' = "fitted" /\ exc' = exc
            /\ UNCHANGED <<self_K, self_p, self_epsilon, self_max_iter,
                           self_distance_metric>>
    /\ UNCHANGED <<svd_tie, locals, X_test, infer_ret, history>>

\* inference, lines 109-118: center, assign with the learned common spaces,
\* return the index sets.
inference(X_arg, S_learned, K, distance_metric) ==
    LET Xc == center_data(X_arg)
        r == assign_clusters(Xc, S_learned, K, distance_metric)
    IN  clusters_of(r.I, K)

\* Variant of Inference: the index sets are also stored in self.idx.
InferenceStoresIdx ==
    /\ pc = "fitted"
    /\ rank_before' = FitRank
    /\ \E X_arg \in TestSets :
        /\ X_test' = Some(X_arg)
        /\ infer_ret' = Some(inference(X_arg, self_S[1], self_K, self_distance_metric))
    /\ self_idx' = infer_ret'
    /\ UNCHANGED <<self_K, self_p, self_epsilon, self_max_iter, self_distance_metric,
                   self_S, self_E, self_info_by_cluster,
                   svd_tie, pc, exc, locals, fit_ret, history>>

\* inference on a fitted object (fit returns only with a metric under which
\* assign_clusters does not raise).
Inference ==
    /\ pc = "fitted"
    /\ rank_before' = FitRank
    /\ \E X_arg \in TestSets :
        /\ X_test' = Some(X_arg)
        /\ infer_ret' = Some(inference(X_arg, self_S[1], self_K, self_distance_metric))
    /\ UNCHANGED <<fields, svd_tie, pc, exc, locals, fit_ret, history>>

Fit == \E X_raw \in Datasets : FitStart(X_raw)

Next ==
    \/ Fit
    \/ AssignStep
    \/ ConvergedBreak
    \/ RecomputeStep
    \/ LoopExit
    \/ FitReturn
    \/ Inference

Spec == Init /\ [][Next]_vars

\* ------------------------------------------------------------ properties
\* The configuration surface of the specification: K >= 1, 1 <= p <= number
\* of variables, max_iter >= 1, one of the four metrics.
ValidConfig ==
    /\ self_K >= 1
    /\ self_p >= 1 /\ self_p <= NumVars
    /\ self_max_iter >= 1
    /\ self_distance_metric \in {"euclidean", "cosine", "dtw", "l1"}

\* The lists partition the sample indices 0..n-1 into K sets.
IsPartition(sets, K, n) ==
    /\ Len(sets) = K
    /\ \A k \in 1..K : Cardinality(Range(sets[k])) = Len(sets[k])
    /\ \A k, l \in 1..K : k # l => Range(sets[k]) \cap Range(sets[l]) = {}
    /\ UNION {Range(sets[k]) : k \in 1..K} = 0..(n - 1)

InLoop == pc \in {"loop", "check", "store"}

\* C1: the K index sets are pairwise disjoint and cover exactly 0..n-1: the
\* initial split and the sets after every recomputation (idx while fit
\* runs), every assignment vector (each sample gets one cluster of 0..K-1),
\* the sets fit returns and stores, and the sets inference returns.
C1_IndexSetsPartition ==
    /\ InLoop => IsPartition(idx, self_K, Len(X))
    /\ pc = "check" =>
          /\ Len(I) = Len(X)
          /\ \A i \in 1..Len(I) : I[i] \in 0..(self_K - 1)
    /\ fit_ret # None =>
          /\ IsPartition(fit_ret[1][1], self_K, Len(X))
          /\ self_idx = Some(fit_ret[1][1])
    /\ infer_ret # None => IsPartition(infer_ret[1], self_K, Len(X_test[1]))

\* C1's case: a fitted model with at least two clusters whose index sets
\* were reassigned away from the initial split, and an inference over three
\* samples.
C1_Witness ==
    /\ pc = "fitted" /\ self_K >= 2 /\ Len(X) >= 3
    /\ idx # array_split(Len(X), self_K)
    /\ infer_ret # None /\ Len(X_test[1]) = 3

\* C2: a cluster with no member has the common space None (while fit runs
\* and in the stored result); after an assignment every sample's error
\* against a None common space is +infinity, and a sample is assigned to such
\* a cluster only if every common space is None.
C2_EmptyClusterSafety ==
    /\ InLoop => \A k \in 1..self_K : Len(idx[k]) = 0 => S[k] = None
    /\ pc = "check" =>
          /\ \A k \in 1..self_K : S[k] = None =>
                \A i \in 1..Len(X) : Error[i][k] = Inf
          /\ \A i \in 1..Len(X) : S[I[i] + 1] = None =>
                \A k \in 1..self_K : S[k] = None
    /\ pc = "fitted" =>
          \A k \in 1..self_K : Len(self_idx[1][k]) = 0 => self_S[1][k] = None

\* C2's case: an assignment of two or more samples made while some cluster
\* is empty and another is not.
C2_Witness ==
    /\ pc = "check" /\ Len(X) >= 2
    /\ \E k \in 1..self_K : Len(idx[k]) = 0 /\ S[k] = None
    /\ \E k \in 1..self_K : S[k] # None

\* C3 as stated: with epsilon = +infinity and a valid configuration the loop
\* ends after exactly 1 iteration, with an error trace of 2 entries.
C3_OneIteration ==
    (ValidConfig /\ self_epsilon = Inf /\ pc \in {"store", "fitted"}) =>
        (t = 1 /\ Len(E) = 2)

\* C3 amended: with epsilon = +infinity and a valid configuration the first
\* comparison (|inf - E[1]| = inf against inf) fails and the second succeeds:
\* the loop ends after exactly min(2, max_iter) iterations with an error trace
\* of min(2, max_iter) + 1 entries, converged when max_iter >= 2.
C3_TwoIterations ==
    (ValidConfig /\ self_epsilon = Inf) =>
        /\ (pc = "check" /\ t = 1) => ~converged(E, t, self_epsilon)
        /\ pc \in {"store", "fitted"} =>
              /\ t = Min(2, self_max_iter)
              /\ Len(E) = t + 1
              /\ outcome = (IF self_max_iter >= 2 THEN "CONVERGED" ELSE "MAX_ITER_REACHED")

\* C3's case: a fit with epsilon = +infinity and max_iter >= 2 has returned.
C3_Witness ==
    /\ ValidConfig /\ self_epsilon = Inf /\ self_max_iter >= 2
    /\ pc = "fitted" /\ outcome = "CONVERGED" /\ t = 2

\* C4 as stated: with an invalid configuration fit ends by raising, before
\* any centering, covariance, extraction or assignment.
C4_EagerConfigurationError ==
    (~ValidConfig /\ pc # "new") => (pc = "raised" /\ stages = {})

\* C5 as stated: the retained-information list returned and stored by fit
\* has one entry per cluster, entry k being the fraction of cluster k.
C5_InfoPerCluster ==
    fit_ret # None =>
        /\ self_info_by_cluster = Some(fit_ret[1][3])
        /\ Len(fit_ret[1][3]) = self_K
        /\ \A k \in 1..self_K : Len(idx[k]) > 0 =>
              fit_ret[1][3][k] = cluster_cpca(cov_matrices, idx[k], self_p, svd_tie)[1][2]

\* The state part of C6.
C6_Terminal ==
    ValidConfig =>
        /\ pc # "raised"
        /\ t <= self_max_iter
        /\ (InLoop \/ pc = "fitted") => (E[1] = Inf /\ Len(E) = t + 1)
        /\ pc \in {"store", "fitted"} =>
              /\ t >= 1
              /\ Len(E) = t + 1
              /\ outcome \in {"CONVERGED", "MAX_ITER_REACHED"}
              /\ outcome = "CONVERGED" <=> converged(E, t, self_epsilon)
              /\ outcome = "MAX_ITER_REACHED" =>
                    /\ t = self_max_iter
                    /\ idx = clusters_of(I, self_K)
                    /\ S = compute_common_spaces(cov_matrices, idx, self_p, svd_tie)[1]
        /\ pc = "fitted" =>
              /\ fit_ret = Some(<<idx, E, info_by_cluster[1]>>)
              /\ self_idx = Some(idx) /\ self_S = Some(S) /\ self_E = Some(E)

\* C6: with a valid configuration fit terminates: every step of fit is
\* taken to a position of lower rank, the rank never falls below 0, and fit
\* never raises; it returns after t iterations with 1 <= t <= max_iter,
\* either CONVERGED (the last two trace entries differ by less than epsilon)
\* or MAX_ITER_REACHED (t = max_iter, the result being the index sets and
\* common spaces recomputed in that iteration), never both; the error trace
\* is +infinity followed by one mean error per iteration.
C6_FitTerminates ==
    /\ C6_Terminal
    /\ (ValidConfig /\ infer_ret = None) => (0 <= FitRank /\ FitRank < rank_before)

\* C6's case: both terminal states are reached by returned fits; here the
\* one that exhausts max_iter >= 2 without converging.
C6_Witness ==
    /\ ValidConfig /\ pc = "fitted" /\ outcome = "MAX_ITER_REACHED"
    /\ self_max_iter >= 2 /\ t = self_max_iter

\* C7: a call of inference (every step taken from a fitted object) changes
\* no field of the object, and a call with the same input as the call before
\* returns the same index sets.
C7_InferenceReadOnly ==
    [][pc = "fitted" =>
          /\ UNCHANGED fields
          /\ UNCHANGED <<pc, exc, locals, fit_ret>>
          /\ (X_test # None /\ X_test' = X_test) => infer_ret' = infer_ret]_vars

\* C7's case: inference has returned index sets different from the stored
\* ones.
C7_Witness ==
    /\ pc = "fitted" /\ infer_ret # None
    /\ Len(X_test[1]) = Len(X)
    /\ infer_ret # self_idx

\* C8: when the loop ends by convergence, the index sets and common spaces
\* kept (and then stored and returned) are those held at the start of the
\* converging iteration; the assignment of that iteration is not committed.
C8_ConvergedKeepsPrevious ==
    (outcome = "CONVERGED" /\ pc \in {"store", "fitted"}) =>
        /\ idx = idx_start /\ S = S_start
        /\ pc = "fitted" =>
              /\ fit_ret[1][1] = idx_start
              /\ self_idx = Some(idx_start) /\ self_S = Some(S_start)

\* C8's case: a converged fit has returned although the assignment of its
\* last iteration gives other index sets than the returned ones.
C8_Witness ==
    /\ pc = "fitted" /\ outcome = "CONVERGED"
    /\ clusters_of(I, self_K) # fit_ret[1][1]

\* C9 as stated: on convergence the returned index set k is {i : I_t[i] = k}
\* for the assignment vector I_t of the converging iteration.
C9_ReturnsSameIteration ==
    (outcome = "CONVERGED" /\ pc = "fitted") =>
        \A k \in 1..self_K : fit_ret[1][1][k] = where_eq(I, k - 1)

\* C9 amended: convergence happens in an iteration t >= 2, and the returned
\* index set k is {i : I_(t-1)[i] = k} for the assignment vector of the
\* iteration before the converging one; the common spaces are those of
\* these sets.
C9_ReturnsPreviousIteration ==
    (outcome = "CONVERGED" /\ pc \in {"store", "fitted"}) =>
        /\ t >= 2 /\ I_prev # None
        /\ \A k \in 1..self_K : idx[k] = where_eq(I_prev[1], k - 1)
        /\ S = compute_common_spaces(cov_matrices, idx, self_p, svd_tie)[1]
        /\ pc = "fitted" => (fit_ret[1][1] = idx /\ self_S = Some(S))

\* C9's case: a converged fit has returned, the assignment vectors of its
\* last two iterations being different.
C9_Witness ==
    /\ pc = "fitted" /\ outcome = "CONVERGED"
    /\ I_prev # None /\ I_prev[1] # I

\* C10: once cluster k has no member (after the initial split or after a
\* recomputation), every later step of the fit keeps its index set empty
\* and its common space None, no assignment gives it a sample, the stored
\* and returned index set k is empty; and the step raises only for a
\* configuration error (unsupported metric, max_iter <= 0), never for the
\* empty cluster.
C10_EmptyClusterAbsorbing ==
    [][\A k \in 1..self_K :
          (InLoop /\ Len(idx[k]) = 0) =>
              /\ Len(idx'[k]) = 0
              /\ S'[k] = None
              /\ pc' = "check" => \A i \in 1..Len(I') : I'[i] # k - 1
              /\ pc' = "fitted" =>
                    (fit_ret'[1][1][k] = <<>> /\ self_idx'[1][k] = <<>> /\ self_S'[1][k] = None)
              /\ pc' = "raised" =>
                    \/ self_distance_metric \notin {"euclidean", "cosine", "dtw", "l1"}
                    \/ self_max_iter <= 0]_vars

\* C10's case: a fit that started with every cluster non-empty has returned
\* with an empty cluster after two or more iterations.
C10_Witness ==
    /\ pc = "fitted" /\ t >= 2
    /\ \A k \in 1..self_K : Len(array_split(Len(X), self_K)[k]) > 0
    /\ \E k \in 1..self_K : Len(fit_ret[1][1][k]) = 0

====
